---- MODULE Spec2Model ----
(***************************************************************************)
(* Model of packages/arb-validator/ethbridge/bisectionChallenge.go:        *)
(*   - StartConnection: head read, bounded historical query and replay,    *)
(*     live subscription anchored one block past the head, and the         *)
(*     background goroutine with its select loop;                          *)
(*   - processEvents: header lookup, topic test, decoding, notification;   *)
(*   - chooseSegment: commitment tree, submission, wait for the receipt.   *)
(* The chain (an append-only log grouped in blocks), the node's query and  *)
(* subscription interface, the consumer of the two channels and the        *)
(* transaction sink are the environment.                                   *)
(***************************************************************************)
EXTENDS Integers, Sequences, FiniteSets, TLC

\* ---------------------------------------------------------------- bounds
\* Number of blocks the chain may mine.
MaxHead == 3
\* Number of entries the log may hold.
MaxLog == 3
\* Number of entries one block may carry.
MaxPerBlock == 2
\* Longest segment sequence handed to chooseSegment.
MaxSegs == 4

VARIABLES
    head,       \* height of the chain's latest block (0: genesis, no entries)
    log,        \* the authoritative log: entries in block order
    ctxDone,    \* ctx.Done() is closed
    cancelPt,   \* where the session stood when ctx was cancelled: "starting"
                \* (no goroutine yet), "idle" (goroutine started, no live entry
                \* read yet), "live" (some live entry read); "none" before
    pc,         \* position of the task running StartConnection
    ret,        \* what StartConnection returned
    header,     \* header.Number read at line 84
    logs,       \* result of FilterLogs at line 97
    i,          \* index of the range loop at line 101
    cur,        \* entry being processed by the caller's processEvents
    hdr,        \* header the caller's processEvents resolved
    pend,       \* notification the caller is sending on outChan
    sub,        \* logSub: "none", "active", "closed"
    subFilter,  \* the filter the subscription was created with
    cursor,     \* log position of the last entry the subscription delivered
    subErr,     \* an error is waiting on logSub.Err()
    gpc,        \* position of the background goroutine
    gcur,       \* entry the goroutine took from logChan
    ghdr,       \* header the goroutine's processEvents resolved
    gpend,      \* notification the goroutine is sending on outChan
    gerr,       \* error the goroutine is sending on errChan
    liveRead,   \* number of entries the goroutine took from logChan
    out,        \* what the consumer received on outChan, in order
    errs,       \* what the consumer received on errChan, in order
    failed,     \* the failures met so far: which task, which error, which entry
    csPc,       \* position of a chooseSegment call
    csIdx,      \* segmentToChallenge
    csSegs,     \* segments
    csTx,       \* the pending handle returned by the submission
    csSeen,     \* how many notifications the consumer had received when the
                \* move was submitted
    receipt,    \* what the sink reports for the pending move
    csRet,      \* what chooseSegment returned
    sink        \* moves the transaction sink accepted, in order

syncVars == <<head, log, ctxDone, cancelPt, pc, ret, header, logs, i, cur, hdr,
              pend, sub, subFilter, cursor, subErr, gpc, gcur, ghdr, gpend, gerr,
              liveRead, out, errs, failed>>
csVars == <<csPc, csIdx, csSegs, csTx, csSeen, receipt, csRet, sink>>
vars == <<syncVars, csVars>>

chainVars == <<head, log>>
ctxVars == <<ctxDone, cancelPt>>
callerVars == <<pc, ret, header, logs, i, cur, hdr, pend>>
subVars == <<sub, subFilter, cursor, subErr>>
gVars == <<gpc, gcur, ghdr, gpend, gerr, liveRead>>
chanVars == <<out, errs>>

\* ------------------------------------------------------------ the chain
Continued == "Continued"
OtherTopic == "Other"

\* continuedChallengeID: the topic registered for the "Continued" event.
continuedChallengeID == Continued

NoEntry == [height |-> 0, topic |-> "none", wellFormed |-> FALSE,
            data |-> <<0, 0>>, tx |-> 0, blockHash |-> 0]

\* Block hashes and transaction hashes are opaque values distinct from
\* heights and log positions.
BlockHashOf(h) == 100 + h
TxHashOf(k) == 200 + k

\* The k-th entry of the log, confirmed in block h.  Its payload is fixed by
\* its position so that all payloads differ.
MkEntry(h, k, topic, wf) ==
    [height |-> h, topic |-> topic, wellFormed |-> wf,
     data |-> <<k % 2, 10 + k>>, tx |-> TxHashOf(k), blockHash |-> BlockHashOf(h)]

\* The kinds of entry a block may carry at the dispute's address.
EntryKinds == {<<Continued, TRUE>>, <<Continued, FALSE>>, <<OtherTopic, TRUE>>}

\* A block is mined: the head advances by one and the block's entries, if
\* any, are appended to the log together.
MineBlock ==
    /\ head < MaxHead
    /\ \E n \in 0..MaxPerBlock :
         /\ Len(log) + n <= MaxLog
         /\ \E ks \in [1..n -> EntryKinds] :
              log' = log \o [j \in 1..n |->
                        MkEntry(head + 1, Len(log) + j, ks[j][1], ks[j][2])]
    /\ head' = head + 1
    /\ UNCHANGED <<ctxVars, callerVars, subVars, gVars, chanVars, csVars>>
    /\ UNCHANGED failed

\* ------------------------------------------------- the node's interface
\* A nil block bound of a FilterQuery.
Nil == -1

\* Whether entry e matches query q: its first topic is one of q's topics
\* and its height lies within q's bounds (a nil bound does not restrict).
Matches(q, e) ==
    /\ e.topic \in q.Topics
    /\ (q.FromBlock = Nil \/ e.height >= q.FromBlock)
    /\ (q.ToBlock = Nil \/ e.height <= q.ToBlock)

\* queryLogs: the entries of the log matching q, in log order.
FilterLogs(q) == SelectSeq(log, LAMBDA e : Matches(q, e))

\* Positions of the log a subscription with filter q has still to deliver
\* after position c.
Undelivered(q, c) == {k \in (c + 1)..Len(log) : Matches(q, log[k])}

\* The position a subscription delivers next: the first undelivered one.
NextLive(q, c) == CHOOSE k \in Undelivered(q, c) : \A m \in Undelivered(q, c) : k <= m

\* headerAt: the header of the block with hash bh.
HeaderByHash(bh) == [Number |-> bh - 100, Hash |-> bh]

\* --------------------------------------------------------- processEvents
\* c.address, the dispute the session was started for.
Address == "dispute"

NoHeader == [Number |-> 0, Hash |-> 0]
NoNotif == [BlockHeader |-> 0, BlockHeight |-> 0, VMID |-> "none",
            Event |-> [SegmentIndex |-> 0, Deadline |-> 0], TxHash |-> 0]

\* BisectionChallenge.ParseContinued: the two fields of a "Continued" event.
ParseContinued(e) == [SegmentIndex |-> e.data[1], DeadlineTicks |-> e.data[2]]

\* The two fields of the event are taken the wrong way round.
Notification_Swapped(h, e, contChal) ==
    [BlockHeader |-> h.Hash,
     BlockHeight |-> h.Number,
     VMID |-> Address,
     Event |-> [SegmentIndex |-> contChal.DeadlineTicks,
                Deadline |-> contChal.SegmentIndex],
     TxHash |-> e.tx]

\* The notification of lines 147-156.
Notification(h, e, contChal) ==
    [BlockHeader |-> h.Hash,
     BlockHeight |-> h.Number,
     VMID |-> Address,
     Event |-> [SegmentIndex |-> contChal.SegmentIndex,
                Deadline |-> contChal.DeadlineTicks],
     TxHash |-> e.tx]

\* An entry of a topic that is not registered is treated as an error.
Decode_StrictTopic(e, h) ==
    IF e.topic = continuedChallengeID
    THEN IF e.wellFormed
         THEN [kind |-> "emit", n |-> Notification(h, e, ParseContinued(e)), err |-> "nil"]
         ELSE [kind |-> "err", n |-> NoNotif, err |-> "ParseErr"]
    ELSE [kind |-> "err", n |-> NoNotif, err |-> "ParseErr"]

\* The error of ParseContinued is ignored and the notification sent anyway.
Decode_NoParseCheck(e, h) ==
    IF e.topic = continuedChallengeID
    THEN [kind |-> "emit", n |-> Notification(h, e, ParseContinued(e)), err |-> "nil"]
    ELSE [kind |-> "skip", n |-> NoNotif, err |-> "nil"]

\* Lines 142-158, once the header h of entry e is resolved: a notification
\* to send, an error to return, or nothing (a topic that is not Continued).
Decode(e, h) ==
    IF e.topic = continuedChallengeID
    THEN IF e.wellFormed
         THEN [kind |-> "emit", n |-> Notification(h, e, ParseContinued(e)), err |-> "nil"]
         ELSE [kind |-> "err", n |-> NoNotif, err |-> "ParseErr"]
    ELSE [kind |-> "skip", n |-> NoNotif, err |-> "nil"]

\* ------------------------------------------------------- StartConnection
\* The filter of the historical query (lines 89-96).
HistFilter(h) == [Topics |-> {continuedChallengeID}, FromBlock |-> Nil, ToBlock |-> h]

\* A subscription anchored at the head read itself instead of one past it.
LiveFilter_FromHead(h) ==
    [Topics |-> {continuedChallengeID}, FromBlock |-> h, ToBlock |-> Nil]

\* A subscription whose lower bound was never set.
LiveFilter_NoFrom(h) ==
    [Topics |-> {continuedChallengeID}, FromBlock |-> Nil, ToBlock |-> Nil]

\* The filter of the live subscription (lines 107-108).
LiveFilter(h) == [Topics |-> {continuedChallengeID}, FromBlock |-> h + 1, ToBlock |-> Nil]

\* A failure of a header lookup, of decoding or of the subscription, met by
\* the caller's task ("hist") or by the goroutine ("live") on entry e.
Failure(via, err, e) == [via |-> via, err |-> err, tx |-> e.tx]

\* StartConnection returns err.
Fail(err) ==
    /\ pc' = "returned"
    /\ ret' = err

\* Line 77: the embedded challenge's StartConnection succeeds or fails.
BaseStart ==
    /\ pc = "base"
    /\ \/ pc' = "setup" /\ ret' = ret
       \/ Fail("BaseErr")
    /\ UNCHANGED <<header, logs, i, cur, hdr, pend>>
    /\ UNCHANGED <<chainVars, ctxVars, subVars, gVars, chanVars, csVars>>
    /\ UNCHANGED failed

\* Lines 80-82 (setupContracts, lines 66-74).
SetupContracts ==
    /\ pc = "setup"
    /\ \/ pc' = "head" /\ ret' = ret
       \/ Fail("SetupErr")
    /\ UNCHANGED <<header, logs, i, cur, hdr, pend>>
    /\ UNCHANGED <<chainVars, ctxVars, subVars, gVars, chanVars, csVars>>
    /\ UNCHANGED failed

\* Lines 84-87: read the head of the chain.
ReadHead ==
    /\ pc = "head"
    /\ \/ pc' = "filter" /\ header' = head /\ ret' = ret
       \/ Fail("HeadErr") /\ header' = header
    /\ UNCHANGED <<logs, i, cur, hdr, pend>>
    /\ UNCHANGED <<chainVars, ctxVars, subVars, gVars, chanVars, csVars>>
    /\ UNCHANGED failed

\* Lines 96-100: the historical query, bounded above by the head read.
QueryLogs ==
    /\ pc = "filter"
    /\ \/ pc' = "replay" /\ logs' = FilterLogs(HistFilter(header)) /\ i' = 1 /\ ret' = ret
       \/ Fail("FilterErr") /\ UNCHANGED <<logs, i>>
    /\ UNCHANGED <<header, cur, hdr, pend>>
    /\ UNCHANGED <<chainVars, ctxVars, subVars, gVars, chanVars, csVars>>
    /\ UNCHANGED failed

\* The range loop ends one entry early: the last historical entry is not
\* processed before the subscription is created.
ReplayNext_StopEarly ==
    /\ pc = "replay"
    /\ IF i < Len(logs)
       THEN pc' = "lookup" /\ cur' = logs[i]
       ELSE pc' = "subscribe" /\ cur' = cur
    /\ UNCHANGED <<ret, header, logs, i, hdr, pend>>
    /\ UNCHANGED <<chainVars, ctxVars, subVars, gVars, chanVars, csVars>>
    /\ UNCHANGED failed

\* Line 101: the range loop takes the next historical entry, or ends.
ReplayNext ==
    /\ pc = "replay"
    /\ IF i <= Len(logs)
       THEN pc' = "lookup" /\ cur' = logs[i]
       ELSE pc' = "subscribe" /\ cur' = cur
    /\ UNCHANGED <<ret, header, logs, i, hdr, pend>>
    /\ UNCHANGED <<chainVars, ctxVars, subVars, gVars, chanVars, csVars>>
    /\ UNCHANGED failed

\* Lines 137-140 in the caller's task: the header lookup succeeds or fails.
HistLookup ==
    /\ pc = "lookup"
    /\ \/ pc' = "decode" /\ hdr' = HeaderByHash(cur.blockHash) /\ ret' = ret
            /\ failed' = failed
       \/ Fail("HeaderErr") /\ hdr' = hdr
            /\ failed' = failed \cup {Failure("hist", "HeaderErr", cur)}
    /\ UNCHANGED <<header, logs, i, cur, pend>>
    /\ UNCHANGED <<chainVars, ctxVars, subVars, gVars, chanVars, csVars>>

\* The replay loop drops the error of processEvents and moves on.
HistDecode_DropErr ==
    /\ pc = "decode"
    /\ LET r == Decode(cur, hdr) IN
         CASE r.kind = "emit" ->
                pc' = "send" /\ pend' = r.n /\ UNCHANGED <<ret, i, failed>>
           [] r.kind = "skip" ->
                pc' = "replay" /\ i' = i + 1 /\ UNCHANGED <<ret, pend, failed>>
           [] r.kind = "err" ->
                /\ pc' = "replay" /\ i' = i + 1
                /\ failed' = failed \cup {Failure("hist", r.err, cur)}
                /\ UNCHANGED <<ret, pend>>
    /\ UNCHANGED <<header, logs, cur, hdr>>
    /\ UNCHANGED <<chainVars, ctxVars, subVars, gVars, chanVars, csVars>>

\* Lines 142-158 in the caller's task, up to the send on outChan; an error
\* returned by processEvents is returned by StartConnection (lines 102-104).
HistDecode ==
    /\ pc = "decode"
    /\ LET r == Decode(cur, hdr) IN
         CASE r.kind = "emit" ->
                pc' = "send" /\ pend' = r.n /\ UNCHANGED <<ret, i, failed>>
           [] r.kind = "skip" ->
                pc' = "replay" /\ i' = i + 1 /\ UNCHANGED <<ret, pend, failed>>
           [] r.kind = "err" ->
                /\ Fail(r.err)
                /\ failed' = failed \cup {Failure("hist", r.err, cur)}
                /\ UNCHANGED <<i, pend>>
    /\ UNCHANGED <<header, logs, cur, hdr>>
    /\ UNCHANGED <<chainVars, ctxVars, subVars, gVars, chanVars, csVars>>

\* Line 147 in the caller's task: the consumer receives the notification.
HistSend ==
    /\ pc = "send"
    /\ out' = Append(out, [n |-> pend, via |-> "hist"])
    /\ pc' = "replay"
    /\ i' = i + 1
    /\ UNCHANGED <<ret, header, logs, cur, hdr, pend, errs>>
    /\ UNCHANGED <<chainVars, ctxVars, subVars, gVars, csVars>>
    /\ UNCHANGED failed

\* The goroutine is started before the subscription's error is looked at.
Subscribe_GoOnError ==
    /\ pc = "subscribe"
    /\ \/ /\ sub' = "active"
          /\ subFilter' = LiveFilter(header)
          /\ gpc' = "select"
          /\ pc' = "returned"
          /\ ret' = "nil"
       \/ Fail("SubscribeErr") /\ gpc' = "select" /\ UNCHANGED <<sub, subFilter>>
    /\ UNCHANGED <<header, logs, i, cur, hdr, pend, cursor, subErr>>
    /\ UNCHANGED <<gcur, ghdr, gpend, gerr, liveRead>>
    /\ UNCHANGED <<chainVars, ctxVars, chanVars, csVars>>
    /\ UNCHANGED failed

\* Lines 107-133: subscribe from one block past the head read, start the
\* goroutine and return nil; or return the subscription's error.
Subscribe ==
    /\ pc = "subscribe"
    /\ \/ /\ sub' = "active"
          /\ subFilter' = LiveFilter(header)
          /\ gpc' = "select"
          /\ pc' = "returned"
          /\ ret' = "nil"
       \/ Fail("SubscribeErr") /\ UNCHANGED <<sub, subFilter, gpc>>
    /\ UNCHANGED <<header, logs, i, cur, hdr, pend, cursor, subErr>>
    /\ UNCHANGED <<gcur, ghdr, gpend, gerr, liveRead>>
    /\ UNCHANGED <<chainVars, ctxVars, chanVars, csVars>>
    /\ UNCHANGED failed

\* -------------------------------------------- the background goroutine
\* Lines 119-121: ctx.Done() is ready and select takes that case.
GSelectDone ==
    /\ gpc = "select"
    /\ ctxDone
    /\ gpc' = "break"
    /\ UNCHANGED <<gcur, ghdr, gpend, gerr, liveRead>>
    /\ UNCHANGED <<chainVars, ctxVars, callerVars, subVars, chanVars, csVars>>
    /\ UNCHANGED failed

\* Line 121: break leaves the select statement, not the for loop of line
\* 118: the loop goes round to the select again.
GBreak ==
    /\ gpc = "break"
    /\ gpc' = "select"
    /\ UNCHANGED <<gcur, ghdr, gpend, gerr, liveRead>>
    /\ UNCHANGED <<chainVars, ctxVars, callerVars, subVars, chanVars, csVars>>
    /\ UNCHANGED failed

\* Line 122: the subscription has an entry to deliver and select takes it.
GTakeLog ==
    /\ gpc = "select"
    /\ sub = "active"
    /\ Undelivered(subFilter, cursor) # {}
    /\ LET k == NextLive(subFilter, cursor) IN
         /\ gcur' = log[k]
         /\ cursor' = k
    /\ liveRead' = liveRead + 1
    /\ gpc' = "lookup"
    /\ UNCHANGED <<ghdr, gpend, gerr, sub, subFilter, subErr>>
    /\ UNCHANGED <<chainVars, ctxVars, callerVars, chanVars, csVars>>
    /\ UNCHANGED failed

\* Line 127: the subscription reported an error and select takes it.
GTakeSubErr ==
    /\ gpc = "select"
    /\ subErr
    /\ subErr' = FALSE
    /\ gerr' = "SubErr"
    /\ failed' = failed \cup {Failure("live", "SubErr", NoEntry)}
    /\ gpc' = "errsend"
    /\ UNCHANGED <<gcur, ghdr, gpend, liveRead, sub, subFilter, cursor>>
    /\ UNCHANGED <<chainVars, ctxVars, callerVars, chanVars, csVars>>

\* Lines 137-140 in the goroutine: the header lookup succeeds or fails.
GLookup ==
    /\ gpc = "lookup"
    /\ \/ gpc' = "decode" /\ ghdr' = HeaderByHash(gcur.blockHash) /\ gerr' = gerr
            /\ failed' = failed
       \/ gpc' = "errsend" /\ gerr' = "HeaderErr" /\ ghdr' = ghdr
            /\ failed' = failed \cup {Failure("live", "HeaderErr", gcur)}
    /\ UNCHANGED <<gcur, gpend, liveRead>>
    /\ UNCHANGED <<chainVars, ctxVars, callerVars, subVars, chanVars, csVars>>

\* Lines 142-158 in the goroutine, up to the send on outChan; an error
\* returned by processEvents goes to errChan (lines 123-124).
GDecode ==
    /\ gpc = "decode"
    /\ LET r == Decode(gcur, ghdr) IN
         CASE r.kind = "emit" ->
                gpc' = "send" /\ gpend' = r.n /\ UNCHANGED <<gerr, failed>>
           [] r.kind = "skip" ->
                gpc' = "select" /\ UNCHANGED <<gpend, gerr, failed>>
           [] r.kind = "err" ->
                /\ gpc' = "errsend" /\ gerr' = r.err /\ gpend' = gpend
                /\ failed' = failed \cup {Failure("live", r.err, gcur)}
    /\ UNCHANGED <<gcur, ghdr, liveRead>>
    /\ UNCHANGED <<chainVars, ctxVars, callerVars, subVars, chanVars, csVars>>

\* The send waits while a submitted move is pending, as if chooseSegment held
\* a lock of the challenge object across waitForReceipt.
GSend_AfterReceipt ==
    /\ gpc = "send"
    /\ ~(csPc = "awaiting" /\ receipt = "pending")
    /\ out' = Append(out, [n |-> gpend, via |-> "live"])
    /\ gpc' = "select"
    /\ UNCHANGED <<gcur, ghdr, gpend, gerr, liveRead, errs>>
    /\ UNCHANGED <<chainVars, ctxVars, callerVars, subVars, csVars>>
    /\ UNCHANGED failed

\* Line 147 in the goroutine: the consumer receives the notification.
GSend ==
    /\ gpc = "send"
    /\ out' = Append(out, [n |-> gpend, via |-> "live"])
    /\ gpc' = "select"
    /\ UNCHANGED <<gcur, ghdr, gpend, gerr, liveRead, errs>>
    /\ UNCHANGED <<chainVars, ctxVars, callerVars, subVars, csVars>>
    /\ UNCHANGED failed

\* The error is sent but the return after it is missing: the loop goes on.
GErrSend_NoReturn ==
    /\ gpc = "errsend"
    /\ errs' = Append(errs, gerr)
    /\ gpc' = "select"
    /\ UNCHANGED <<gcur, ghdr, gpend, gerr, liveRead, out>>
    /\ UNCHANGED <<chainVars, ctxVars, callerVars, subVars, csVars>>
    /\ UNCHANGED failed

\* Lines 124-125 and 128-129: the consumer receives the error and the
\* goroutine returns.
GErrSend ==
    /\ gpc = "errsend"
    /\ errs' = Append(errs, gerr)
    /\ gpc' = "exit"
    /\ UNCHANGED <<gcur, ghdr, gpend, gerr, liveRead, out>>
    /\ UNCHANGED <<chainVars, ctxVars, callerVars, subVars, csVars>>
    /\ UNCHANGED failed

\* Line 116: the deferred Unsubscribe runs as the goroutine returns.
GExit ==
    /\ gpc = "exit"
    /\ sub' = "closed"
    /\ gpc' = "done"
    /\ UNCHANGED <<gcur, ghdr, gpend, gerr, liveRead, subFilter, cursor, subErr>>
    /\ UNCHANGED <<chainVars, ctxVars, callerVars, chanVars, csVars>>
    /\ UNCHANGED failed

\* ------------------------------------------------------ the environment
\* The subscription fails: an error becomes ready on logSub.Err().
SubFail ==
    /\ sub = "active"
    /\ gpc \in {"select", "break", "lookup", "decode", "send"}
    /\ ~subErr
    /\ subErr' = TRUE
    /\ UNCHANGED <<sub, subFilter, cursor>>
    /\ UNCHANGED <<chainVars, ctxVars, callerVars, gVars, chanVars, csVars>>
    /\ UNCHANGED failed

\* Whether the historical replay has completed.
ReplayDone == pc = "subscribe" \/ (pc = "returned" /\ ret \in {"nil", "SubscribeErr"})

\* The owner of ctx cancels it.
Cancel ==
    /\ ~ctxDone
    /\ ctxDone' = TRUE
    /\ cancelPt' = IF gpc = "none" THEN "starting"
                   ELSE IF liveRead = 0 THEN "idle" ELSE "live"
    /\ UNCHANGED <<chainVars, callerVars, subVars, gVars, chanVars, csVars>>
    /\ UNCHANGED failed

\* ------------------------------------------------------------ the session
InitChain ==
    /\ head = 0
    /\ log = <<>>

InitSync ==
    /\ ctxDone = FALSE
    /\ cancelPt = "none"
    /\ pc = "base"
    /\ ret = "none"
    /\ header = 0
    /\ logs = <<>>
    /\ i = 0
    /\ cur = NoEntry
    /\ hdr = NoHeader
    /\ pend = NoNotif
    /\ sub = "none"
    /\ subFilter = HistFilter(Nil)
    /\ cursor = 0
    /\ subErr = FALSE
    /\ gpc = "none"
    /\ gcur = NoEntry
    /\ ghdr = NoHeader
    /\ gpend = NoNotif
    /\ gerr = "nil"
    /\ liveRead = 0
    /\ out = <<>>
    /\ errs = <<>>
    /\ failed = {}

InitCS ==
    /\ csPc = "idle"
    /\ csIdx = 0
    /\ csSegs = <<>>
    /\ csTx = 0
    /\ csSeen = 0
    /\ receipt = "none"
    /\ csRet = "none"
    /\ sink = <<>>

Init == InitChain /\ InitSync /\ InitCS

Caller ==
    \/ BaseStart
    \/ SetupContracts
    \/ ReadHead
    \/ QueryLogs
    \/ ReplayNext
    \/ HistLookup
    \/ HistDecode
    \/ HistSend
    \/ Subscribe

Goroutine ==
    \/ GSelectDone
    \/ GBreak
    \/ GTakeLog
    \/ GTakeSubErr
    \/ GLookup
    \/ GDecode
    \/ GSend
    \/ GErrSend
    \/ GExit

Next ==
    \/ MineBlock
    \/ Cancel
    \/ SubFail
    \/ Caller
    \/ Goroutine

\* One session of the synchronizer over a growing chain.
Spec == Init /\ [][Next]_vars

\* The same, with the Go scheduler running every task that can take a step:
\* the caller's task, the goroutine, and the consumer's receives (which are
\* part of the send steps).  A select with several ready cases picks one at
\* random, so a case that is ready again and again is taken in the end.
\* Nothing obliges the chain to grow, the subscription to fail or ctx to be
\* cancelled.
FairSpec ==
    /\ Spec
    /\ WF_vars(Caller)
    /\ WF_vars(Goroutine)
    /\ SF_vars(GTakeLog)
    /\ SF_vars(GTakeSubErr)

\* ------------------------------------------------------ commitment tree
\* The least power of two that is at least n, from p upwards.
RECURSIVE NextPow2(_, _)
NextPow2(n, p) == IF p >= n THEN p ELSE NextPow2(n, 2 * p)

\* 2^d.
RECURSIVE Pow2(_)
Pow2(d) == IF d = 0 THEN 1 ELSE 2 * Pow2(d - 1)

\* The leaves: the segments, padded with the sentinel 0 to a power of two.
Pad(segs) == segs \o [j \in 1..(NextPow2(Len(segs), 1) - Len(segs)) |-> 0]

\* The combining hash of two children: injective, and never a leaf value.
Hash(l, r) == <<l, r>>

NextLayer(layer) ==
    [j \in 1..(Len(layer) \div 2) |-> Hash(layer[2 * j - 1], layer[2 * j])]

\* The layers above and including `layer`, leaves first, root last.
RECURSIVE Layers(_)
Layers(layer) ==
    IF Len(layer) <= 1 THEN <<layer>> ELSE <<layer>> \o Layers(NextLayer(layer))

\* build: fails with InvalidInput on an empty sequence.
NewMerkleTree(segs) ==
    IF segs = <<>>
    THEN [ok |-> FALSE, err |-> "InvalidInput", layers |-> <<>>, n |-> 0]
    ELSE [ok |-> TRUE, err |-> "nil", layers |-> Layers(Pad(segs)), n |-> Len(segs)]

\* root: the single value of the last layer.
GetRoot(t) == t.layers[Len(t.layers)][1]

\* leafValue and proof fail with IndexOutOfRange from the leaf count on.
InRange(t, idx) == idx < t.n

\* leafValue: the idx-th leaf (from 0).
GetNode(t, idx) == t.layers[1][idx + 1]

\* proof: the siblings on the path from leaf idx to the root, bottom-up.
GetProofFlat(t, idx) ==
    [d \in 1..(Len(t.layers) - 1) |->
        LET pos == idx \div Pow2(d - 1) IN
        t.layers[d][(IF pos % 2 = 0 THEN pos + 1 ELSE pos - 1) + 1]]

\* --------------------------------------------------------- chooseSegment
\* The segment digests a caller may pass.
Digests == {1, 2}

\* The sequences over S of length at most n.
SeqsUpTo(S, n) == UNION {[1..m -> S] : m \in 0..n}

\* The leaf value passed is that of the first leaf whatever the index.
Move_LeafOfFirst(t, idx) ==
    [index |-> idx, proof |-> GetProofFlat(t, idx), root |-> GetRoot(t),
     leaf |-> GetNode(t, 0)]

\* The proof passed is that of the first leaf whatever the index.
Move_ProofOfFirst(t, idx) ==
    [index |-> idx, proof |-> GetProofFlat(t, 0), root |-> GetRoot(t),
     leaf |-> GetNode(t, idx)]

\* The arguments of BisectionChallenge.ChooseSegment (lines 170-173).
Move(t, idx) ==
    [index |-> idx, proof |-> GetProofFlat(t, idx), root |-> GetRoot(t),
     leaf |-> GetNode(t, idx)]

\* What evaluating lines 166-174 ends in before anything is submitted:
\* "nil" when the tree and the three arguments can be computed.
ArgsError(idx, segs) ==
    LET t == NewMerkleTree(segs) IN
    IF ~t.ok THEN t.err
    ELSE IF ~InRange(t, idx) THEN "IndexOutOfRange"
    ELSE "nil"

\* A caller invokes chooseSegment(idx, segs).
CSCall ==
    /\ csPc = "idle"
    /\ csRet = "none"
    /\ \E idx \in 0..MaxSegs, segs \in SeqsUpTo(Digests, MaxSegs) :
         /\ csIdx' = idx
         /\ csSegs' = segs
    /\ csPc' = "selecting"
    /\ UNCHANGED <<csTx, csSeen, receipt, csRet, sink, syncVars>>

\* An index past the last segment is clamped to it instead of rejected.
CSSubmit_Clamped ==
    /\ csPc = "selecting"
    /\ LET t == NewMerkleTree(csSegs) IN
       IF ~t.ok
       THEN /\ csPc' = "returned"
            /\ csRet' = t.err
            /\ UNCHANGED <<csTx, csSeen, receipt, sink>>
       ELSE /\ sink' = Append(sink,
                    Move(t, IF InRange(t, csIdx) THEN csIdx ELSE t.n - 1))
            /\ csTx' = Len(sink) + 1
            /\ csSeen' = Len(out)
            /\ receipt' = "pending"
            /\ csPc' = "awaiting"
            /\ csRet' = csRet
    /\ UNCHANGED <<csIdx, csSegs, syncVars>>

\* Lines 166-177: build the tree, compute the arguments, submit the move.
\* The arguments are computed before the call: a failure there submits
\* nothing.  The submission is accepted (a pending handle) or rejected.
CSSubmit ==
    /\ csPc = "selecting"
    /\ IF ArgsError(csIdx, csSegs) # "nil"
       THEN /\ csPc' = "returned"
            /\ csRet' = ArgsError(csIdx, csSegs)
            /\ UNCHANGED <<csTx, csSeen, receipt, sink>>
       ELSE \/ /\ sink' = Append(sink, Move(NewMerkleTree(csSegs), csIdx))
               /\ csTx' = Len(sink) + 1
               /\ csSeen' = Len(out)
               /\ receipt' = "pending"
               /\ csPc' = "awaiting"
               /\ csRet' = csRet
            \/ /\ csPc' = "returned"
               /\ csRet' = "SubmitErr"
               /\ UNCHANGED <<csTx, csSeen, receipt, sink>>
    /\ UNCHANGED <<csIdx, csSegs, syncVars>>

\* The sink confirms the pending move or reports its failure.
SinkReport ==
    /\ receipt = "pending"
    /\ receipt' \in {"confirmed", "failed"}
    /\ UNCHANGED <<csPc, csIdx, csSegs, csTx, csSeen, csRet, sink, syncVars>>

\* A failed receipt makes the call submit the move again and wait again.
CSReturn_Retry ==
    /\ csPc = "awaiting"
    /\ receipt \in {"confirmed", "failed"}
    /\ IF receipt = "confirmed"
       THEN /\ csRet' = "nil"
            /\ csPc' = "returned"
            /\ UNCHANGED <<csTx, csSeen, receipt, sink>>
       ELSE /\ sink' = Append(sink, Move(NewMerkleTree(csSegs), csIdx))
            /\ csTx' = Len(sink) + 1
            /\ csSeen' = Len(out)
            /\ receipt' = "pending"
            /\ UNCHANGED <<csPc, csRet>>
    /\ UNCHANGED <<csIdx, csSegs, syncVars>>

\* Line 178: waitForReceipt returns once the sink has reported, and
\* chooseSegment returns its result.
CSReturn ==
    /\ csPc = "awaiting"
    /\ receipt \in {"confirmed", "failed"}
    /\ csRet' = IF receipt = "confirmed" THEN "nil" ELSE "ReceiptErr"
    /\ csPc' = "returned"
    /\ UNCHANGED <<csIdx, csSegs, csTx, csSeen, receipt, sink, syncVars>>

NextCS ==
    \/ CSCall
    \/ CSSubmit
    \/ SinkReport
    \/ CSReturn

\* One call of chooseSegment, on any index and segment sequence within the
\* bounds.
SpecCS == Init /\ [][NextCS]_vars

\* ------------------------------------------ processEvents on any entry
\* processEvents is entered with an entry e of any topic, whatever the
\* filter would have let through: by the replay loop (the entry lies at or
\* below the head read) or by the goroutine (it lies above).
InitPE ==
    /\ InitCS
    /\ \E h \in 1..MaxHead, kind \in EntryKinds, via \in {"hist", "live"} :
         LET e == MkEntry(h, 1, kind[1], kind[2]) IN
         /\ head = h
         /\ log = <<e>>
         /\ ctxDone = FALSE /\ cancelPt = "none"
         /\ hdr = NoHeader /\ pend = NoNotif
         /\ ghdr = NoHeader /\ gpend = NoNotif /\ gerr = "nil"
         /\ subErr = FALSE
         /\ out = <<>> /\ errs = <<>> /\ failed = {}
         /\ IF via = "hist"
            THEN /\ header = h
                 /\ logs = <<e>> /\ i = 1 /\ cur = e
                 /\ pc = "lookup" /\ ret = "none"
                 /\ sub = "none" /\ subFilter = HistFilter(Nil) /\ cursor = 0
                 /\ gpc = "none" /\ gcur = NoEntry /\ liveRead = 0
            ELSE /\ header = h - 1
                 /\ logs = <<>> /\ i = 1 /\ cur = NoEntry
                 /\ pc = "returned" /\ ret = "nil"
                 /\ sub = "active" /\ subFilter = LiveFilter(h - 1) /\ cursor = 1
                 /\ gpc = "lookup" /\ gcur = e /\ liveRead = 1

NextPE ==
    \/ MineBlock
    \/ Cancel
    \/ SubFail
    \/ ReplayNext
    \/ HistLookup
    \/ HistDecode
    \/ HistSend
    \/ Subscribe
    \/ Goroutine

\* A session from the moment processEvents is entered with any one entry.
SpecPE == InitPE /\ [][NextPE]_vars

\* ------------------------------ the session and chooseSegment together
\* A caller invokes chooseSegment on the second of two segments.
CSCallSecond ==
    /\ csPc = "idle"
    /\ csRet = "none"
    /\ csIdx' = 1
    /\ csSegs' = <<1, 2>>
    /\ csPc' = "selecting"
    /\ UNCHANGED <<csTx, csSeen, receipt, csRet, sink, syncVars>>

\* The steps of the goroutine in a session that is not cancelled and whose
\* subscription does not fail.
GoroutineRun ==
    \/ GTakeLog
    \/ GLookup
    \/ GDecode
    \/ GSend
    \/ GErrSend
    \/ GExit

NextJoint ==
    \/ MineBlock
    \/ Caller
    \/ GoroutineRun
    \/ CSCallSecond
    \/ CSSubmit
    \/ SinkReport
    \/ CSReturn

\* One session (not cancelled, its subscription not failing) and one call of
\* chooseSegment on the same challenge object, the call made at any moment.
SpecJoint == Init /\ [][NextJoint]_vars

\* The fields of the challenge object read and written by the next step of
\* the task running StartConnection.
StartReads ==
    CASE pc = "base" -> {"challenge"}
      [] pc = "setup" -> {"address", "client"}
      [] pc = "head" -> {"client"}
      [] pc = "filter" -> {"address", "client"}
      [] pc = "lookup" -> {"client"}
      [] pc = "decode" -> {"BisectionChallenge", "address"}
      [] pc = "subscribe" -> {"client"}
      [] OTHER -> {}

\* Line 72: setupContracts assigns c.BisectionChallenge.
StartWrites == IF pc = "setup" THEN {"BisectionChallenge"} ELSE {}

\* The same for the goroutine (processEvents, lines 137, 143, 150).
TaskReads ==
    CASE gpc = "lookup" -> {"client"}
      [] gpc = "decode" -> {"BisectionChallenge", "address"}
      [] OTHER -> {}

TaskWrites == {}

\* The same for chooseSegment: line 167 assigns c.auth.Context, line 168
\* reads c.BisectionChallenge and c.auth.
ChooseReads == IF csPc = "selecting" THEN {"BisectionChallenge", "auth"} ELSE {}

ChooseWrites == IF csPc = "selecting" THEN {"auth.Context"} ELSE {}

\* One task is about to write a field another is about to read or write.
Conflict(w1, r1, w2, r2) ==
    \/ w1 \cap (r2 \cup w2) # {}
    \/ w2 \cap (r1 \cup w1) # {}

\* ================================================================ claims
\* Positions of out holding a notification for the transaction tx.
Deliveries(tx) == {j \in 1..Len(out) : out[j].n.TxHash = tx}

\* Positions of the log holding "Continued" entries.
ContinuedAt == {k \in 1..Len(log) : log[k].topic = Continued}

\* The head height has been read (line 84 succeeded).
HeadRead ==
    \/ pc \in {"filter", "replay", "lookup", "decode", "send", "subscribe"}
    \/ pc = "returned" /\ ret \notin {"none", "BaseErr", "SetupErr", "HeadErr"}

\* The goroutine waits in its select and the subscription has nothing more
\* to deliver.
LiveDrained ==
    /\ gpc \in {"select", "break"}
    /\ Undelivered(subFilter, cursor) = {}

\* C1: in a session that read head height H, no "Continued" event is
\* notified twice; a notification sent by the historical replay is for an
\* event at height <= H and one sent by the live path is for an event at
\* height >= H+1; once the replay has completed every "Continued" event at
\* height <= H has been notified, and whenever the goroutine has drained
\* the subscription every "Continued" event at height >= H+1 has been.
C1_ExactlyOnce ==
    /\ \A j \in 1..Len(out) :
         \E k \in ContinuedAt : log[k].tx = out[j].n.TxHash
    /\ \A k \in ContinuedAt :
         /\ Cardinality(Deliveries(log[k].tx)) <= 1
         /\ \A j \in Deliveries(log[k].tx) :
              /\ HeadRead
              /\ out[j].via = "hist" <=> log[k].height <= header
              /\ out[j].via = "live" <=> log[k].height >= header + 1
         /\ (ReplayDone /\ log[k].height <= header)
              => Cardinality(Deliveries(log[k].tx)) = 1
         /\ (LiveDrained /\ log[k].height >= header + 1)
              => Cardinality(Deliveries(log[k].tx)) = 1

\* C1 witness: an event confirmed in the very block of the head read was
\* notified by the replay, an event of the next block by the live path, and
\* the goroutine has drained the subscription.
C1_Witness ==
    /\ LiveDrained
    /\ \E a, b \in 1..Len(out) :
         /\ out[a].via = "hist" /\ out[a].n.BlockHeight = header
         /\ out[b].via = "live" /\ out[b].n.BlockHeight = header + 1

\* C2: the notifications received on the one stream are in non-decreasing
\* block-height order, every notification of the historical replay precedes
\* every notification of the live path, and the caller's task is never
\* inside processEvents once the goroutine exists (so the two never send
\* concurrently).
C2_Ordered ==
    /\ \A a, b \in 1..Len(out) :
         a < b => /\ out[a].n.BlockHeight <= out[b].n.BlockHeight
                  /\ ~(out[a].via = "live" /\ out[b].via = "hist")
    /\ ~(pc = "send" /\ gpc = "send")
    /\ gpc # "none" => pc = "returned"

\* C2 witness: two historical notifications of one block followed by a live
\* notification.
C2_Witness ==
    /\ Len(out) >= 3
    /\ out[1].via = "hist" /\ out[2].via = "hist" /\ out[3].via = "live"
    /\ out[1].n.BlockHeight = out[2].n.BlockHeight

\* C3: once ctx is cancelled, the goroutine started by StartConnection
\* eventually returns and its subscription is released.
C3_CancelReleases == (ctxDone /\ gpc # "none") ~> (sub = "closed")

\* C4: when ctx was cancelled after the replay had completed (the goroutine
\* waiting in its select) and before any live entry was read, no step
\* afterwards takes an entry from the live feed or adds a notification to
\* the stream.
C4_NoEmitAfterCancel ==
    [][cancelPt = "idle" => (liveRead' = liveRead /\ out' = out)]_vars

\* The failures the goroutine met.
LiveFailures == {f \in failed : f.via = "live"}

\* C5: a failure met by the goroutine (header lookup, decoding, or the
\* subscription's error) stops it at once: it is the goroutine's only
\* failure, its error is sent on the error stream, exactly once and as the
\* only error of the session; from then on the goroutine can only return and
\* release the subscription, and the two streams never change again.
C5_FatalOnce ==
    /\ [](/\ Cardinality(LiveFailures) <= 1
          /\ \A f \in LiveFailures :
               /\ gerr = f.err
               /\ \/ gpc = "errsend" /\ errs = <<>>
                  \/ gpc \in {"exit", "done"} /\ errs = <<f.err>>
          /\ errs # <<>> => LiveFailures # {}
          /\ gpc = "done" => (sub = "closed" /\ errs # <<>>))
    /\ [][errs # <<>> => (out' = out /\ errs' = errs)]_vars
    /\ [][(gpc = "errsend" /\ gpc' # gpc) =>
            (gpc' = "exit" /\ errs' = <<gerr>> /\ out' = out)]_vars
    /\ [][(gpc \in {"exit", "done"} /\ gpc' # gpc) =>
            (gpc = "exit" /\ gpc' = "done" /\ sub' = "closed")]_vars

\* C5 witness: the goroutine sent notifications, then met a failure with
\* entries still to deliver, reported it and released the subscription.
C5_Witness ==
    /\ gpc = "done"
    /\ sub = "closed"
    /\ Len(errs) = 1
    /\ \E j \in 1..Len(out) : out[j].via = "live"
    /\ Undelivered(subFilter, cursor) # {}

\* The failures of header lookups and of decoding.
EntryFailures == {f \in failed : f.err \in {"HeaderErr", "ParseErr"}}

C7_EmitAfterResolve ==
    /\ \A j \in 1..Len(out) :
         \E k \in ContinuedAt :
            /\ log[k].tx = out[j].n.TxHash
            /\ log[k].wellFormed
            /\ out[j].n.BlockHeight = log[k].height
            /\ out[j].n.BlockHeader = log[k].blockHash
    /\ pc = "send" =>
         /\ cur.wellFormed /\ hdr = HeaderByHash(cur.blockHash)
         /\ pend.TxHash = cur.tx /\ pend.BlockHeight = hdr.Number
    /\ gpc = "send" =>
         /\ gcur.wellFormed /\ ghdr = HeaderByHash(gcur.blockHash)
         /\ gpend.TxHash = gcur.tx /\ gpend.BlockHeight = ghdr.Number
    /\ \A f \in EntryFailures :
         /\ Deliveries(f.tx) = {}
         /\ f.via = "hist" => (pc = "returned" /\ ret = f.err)
         /\ f.via = "live" => (gpc \in {"errsend", "exit", "done"} /\ gerr = f.err)

\* C7 witness: after a notification, a malformed entry was met: its decoding
\* failed and it has no notification.
C7_Witness ==
    /\ Len(out) >= 1
    /\ \E f \in EntryFailures : f.err = "ParseErr" /\ Deliveries(f.tx) = {}

\* The topic of the entry of transaction tx.
TopicOf(tx) == log[CHOOSE k \in 1..Len(log) : log[k].tx = tx].topic

\* C8 as stated: processing an entry whose first topic is not "Continued"
\* never ends in an error, on either path.
C8_NoErrorOnOtherTopic ==
    \A f \in EntryFailures : TopicOf(f.tx) = Continued

\* C8 amended: an entry whose first topic is not "Continued" never gets a
\* notification and never a decoding error (the only error it can raise is
\* that of its header lookup, which precedes the topic test); once its
\* header is resolved, processing it changes neither stream, reports no
\* failure and leaves the session running (the replay loop moves to the
\* next entry, the goroutine goes back to its select).
C8_OtherTopicIgnored ==
    /\ [](/\ \A j \in 1..Len(out) : TopicOf(out[j].n.TxHash) = Continued
          /\ \A f \in EntryFailures :
               TopicOf(f.tx) # Continued => f.err = "HeaderErr"
          /\ pc = "send" => cur.topic = Continued
          /\ gpc = "send" => gcur.topic = Continued)
    /\ [][(pc = "decode" /\ cur.topic # Continued /\ pc' # pc) =>
            /\ pc' = "replay" /\ i' = i + 1 /\ ret' = "none"
            /\ UNCHANGED <<out, errs, failed>>]_vars
    /\ [][(gpc = "decode" /\ gcur.topic # Continued /\ gpc' # gpc) =>
            /\ gpc' = "select" /\ sub' = "active"
            /\ UNCHANGED <<out, errs, failed>>]_vars

\* C8 witness: the goroutine processed an entry of another topic, emitted
\* nothing for it, met no failure, and is back in its select.
C8_Witness ==
    /\ gcur.topic = OtherTopic
    /\ gpc = "select"
    /\ sub = "active"
    /\ out = <<>> /\ errs = <<>> /\ failed = {}

\* C9 as stated: a call with segmentToChallenge >= len(segments) returns
\* IndexOutOfRange and nothing was submitted.
C9_IndexOutOfRange ==
    (csPc # "idle" /\ csIdx >= Len(csSegs)) =>
        /\ sink = <<>>
        /\ csPc \in {"selecting", "returned"}
        /\ csPc = "returned" => csRet = "IndexOutOfRange"

\* C9 amended: a call with segmentToChallenge >= len(segments) submits
\* nothing and fails: with IndexOutOfRange when segments is not empty, with
\* the tree's InvalidInput when it is empty.
C9_FailsNoSubmission ==
    (csPc # "idle" /\ csIdx >= Len(csSegs)) =>
        /\ sink = <<>>
        /\ csPc \in {"selecting", "returned"}
        /\ csPc = "returned" =>
              csRet = IF csSegs = <<>> THEN "InvalidInput" ELSE "IndexOutOfRange"

\* C9 witness: the index equals the length of a sequence of several
\* segments, and the call has returned.
C9_Witness ==
    /\ csPc = "returned"
    /\ Len(csSegs) >= 2
    /\ csIdx = Len(csSegs)
    /\ csRet = "IndexOutOfRange"

\* C10: a call goes idle -> selecting -> awaiting -> returned, or from
\* selecting straight to returned; it submits at most one move; it returns
\* from selecting only with an error and nothing awaited; while the sink has
\* not reported it stays in awaiting; it returns nil exactly when the sink
\* confirmed and the sink's error exactly when the sink reported a failure;
\* and once returned it submits nothing more.
C10_OneMove ==
    /\ [](/\ Len(sink) <= 1
          /\ csPc \in {"idle", "selecting"} =>
               (sink = <<>> /\ receipt = "none" /\ csRet = "none")
          /\ csPc = "awaiting" =>
               (Len(sink) = 1 /\ receipt # "none" /\ csRet = "none")
          /\ csPc = "returned" =>
               \/ /\ csRet \in {"InvalidInput", "IndexOutOfRange", "SubmitErr"}
                  /\ sink = <<>> /\ receipt = "none"
               \/ csRet = "nil" /\ receipt = "confirmed" /\ Len(sink) = 1
               \/ csRet = "ReceiptErr" /\ receipt = "failed" /\ Len(sink) = 1)
    /\ [][csPc' # csPc =>
            <<csPc, csPc'>> \in {<<"idle", "selecting">>, <<"selecting", "awaiting">>,
                                 <<"selecting", "returned">>, <<"awaiting", "returned">>}]_vars
    /\ [][(csPc = "awaiting" /\ receipt = "pending") => csPc' = "awaiting"]_vars
    /\ [][csPc = "returned" => UNCHANGED <<csPc, csRet, sink, receipt>>]_vars

\* C10 witness: the move was submitted, the sink reported its failure, and
\* the call returned that error with the one move in the sink.
C10_Witness ==
    /\ csPc = "returned"
    /\ csRet = "ReceiptErr"
    /\ Len(sink) = 1

\* The depth of a tree over n leaves: the least d with 2^d >= n.
Depth(n) == CHOOSE d \in 0..n : Pow2(d) >= n /\ \A e \in 0..n : Pow2(e) >= n => d <= e

\* The root over a power-of-two run of leaves, computed top-down by halving
\* (not layer by layer as the tree is built).
RECURSIVE RootOf(_)
RootOf(leaves) ==
    IF Len(leaves) = 1 THEN leaves[1]
    ELSE LET h == Len(leaves) \div 2 IN
         Hash(RootOf(SubSeq(leaves, 1, h)), RootOf(SubSeq(leaves, h + 1, Len(leaves))))

\* The given segments followed by sentinels up to 2^Depth leaves.
Padded(segs) ==
    [j \in 1..Pow2(Depth(Len(segs))) |-> IF j <= Len(segs) THEN segs[j] ELSE 0]

\* The root of the subtree beside the path of leaf idx at level d (from 1):
\* the run of 2^(d-1) leaves next to the run that holds leaf idx.
SiblingRoot(segs, idx, d) ==
    LET w == Pow2(d - 1)
        pos == idx \div w
        sib == IF pos % 2 = 0 THEN pos + 1 ELSE pos - 1
    IN RootOf(SubSeq(Padded(segs), sib * w + 1, (sib + 1) * w))

\* C11: a move in the sink was submitted for the call's index i < len(segs)
\* and non-empty segments; it carries index i, the leaf value segments[i],
\* the root of the tree over exactly the given segments (padded), and a
\* proof with one sibling per level (2 for 4 segments), the d-th being the
\* root of the subtree beside leaf i's path at level d; and a call with a
\* valid index that has left "selecting" without a submission error has
\* submitted such a move.
C11_MoveContent ==
    /\ \A m \in 1..Len(sink) :
         /\ csSegs # <<>>
         /\ csIdx < Len(csSegs)
         /\ sink[m].index = csIdx
         /\ sink[m].leaf = csSegs[csIdx + 1]
         /\ sink[m].root = RootOf(Padded(csSegs))
         /\ Len(sink[m].proof) = Depth(Len(csSegs))
         /\ \A d \in 1..Len(sink[m].proof) :
              sink[m].proof[d] = SiblingRoot(csSegs, csIdx, d)
         /\ Len(csSegs) = 4 => Len(sink[m].proof) = 2
    /\ (csPc \in {"awaiting", "returned"} /\ csSegs # <<>> /\ csIdx < Len(csSegs)
          /\ csRet # "SubmitErr") => Len(sink) = 1

\* C11 witness: a move for the last of four segments, distinct from the
\* first, is in the sink with a proof of length 2.
C11_Witness ==
    /\ Len(sink) = 1
    /\ Len(csSegs) = 4
    /\ csIdx = 3
    /\ csSegs[4] # csSegs[1]
    /\ Len(sink[1].proof) = 2
    /\ sink[1].leaf = csSegs[4]

\* C12: at no moment is one of the three tasks (StartConnection, its
\* goroutine, chooseSegment) about to write a field of the challenge object
\* that another of them is about to read or write.
C12_NoSharedField ==
    /\ ~Conflict(StartWrites, StartReads, TaskWrites, TaskReads)
    /\ ~Conflict(StartWrites, StartReads, ChooseWrites, ChooseReads)
    /\ ~Conflict(TaskWrites, TaskReads, ChooseWrites, ChooseReads)

RECURSIVE Recompute(_, _, _, _)
Recompute(proof, d, pos, value) ==
    IF d > Len(proof) THEN value
    ELSE Recompute(proof, d + 1, pos \div 2,
                   IF pos % 2 = 0 THEN Hash(value, proof[d]) ELSE Hash(proof[d], value))

\* C14: for the non-empty segment sequence S of a call and every i < len(S),
\* the root recomputed from (proof(i), i, leafValue(i)) of the tree built
\* over S is root(); and the root recomputed from the proof, index and leaf
\* of every submitted move is the root that move carries.
C14_ProofVerifies ==
    /\ csSegs # <<>> =>
         LET t == NewMerkleTree(csSegs) IN
         \A j \in 0..(Len(csSegs) - 1) :
            Recompute(GetProofFlat(t, j), 1, j, GetNode(t, j)) = GetRoot(t)
    /\ \A m \in 1..Len(sink) :
         Recompute(sink[m].proof, 1, sink[m].index, sink[m].leaf) = sink[m].root

\* C14 witness: a move for the last of three segments, whose proof starts
\* with the padding sentinel, was submitted and verifies.
C14_Witness ==
    /\ Len(sink) = 1
    /\ Len(csSegs) = 3
    /\ sink[1].index = 2
    /\ sink[1].proof[1] = 0
    /\ Recompute(sink[1].proof, 1, 2, csSegs[3]) = sink[1].root

\* C15: every notification received, and every notification about to be
\* sent, is the decoding of one "Continued" entry of the log: the hash and
\* height of the header resolved from that entry's block hash (which are
\* the entry's own block hash and height), the session's address, the
\* entry's two event fields as segment index and deadline, and the entry's
\* transaction hash.
C15_FaithfulDecoding ==
    /\ \A j \in 1..Len(out) :
         \E k \in ContinuedAt :
            LET e == log[k]
                n == out[j].n
            IN /\ n.TxHash = e.tx
               /\ n.BlockHeader = HeaderByHash(e.blockHash).Hash
               /\ n.BlockHeader = e.blockHash
               /\ n.BlockHeight = HeaderByHash(e.blockHash).Number
               /\ n.BlockHeight = e.height
               /\ n.VMID = Address
               /\ n.Event.SegmentIndex = e.data[1]
               /\ n.Event.Deadline = e.data[2]
    /\ pc = "send" =>
         /\ pend.Event = [SegmentIndex |-> cur.data[1], Deadline |-> cur.data[2]]
         /\ pend.VMID = Address /\ pend.BlockHeader = cur.blockHash
    /\ gpc = "send" =>
         /\ gpend.Event = [SegmentIndex |-> gcur.data[1], Deadline |-> gcur.data[2]]
         /\ gpend.VMID = Address /\ gpend.BlockHeader = gcur.blockHash

\* C15 witness: a notification of the replay and one of the live path, with
\* different segment indices and deadlines, were received.
C15_Witness ==
    \E a, b \in 1..Len(out) :
       /\ out[a].via = "hist" /\ out[b].via = "live"
       /\ out[a].n.Event.SegmentIndex # out[b].n.Event.SegmentIndex
       /\ out[a].n.Event.Deadline # out[b].n.Event.Deadline

\* Every entry of the historical query result has its notification, sent by
\* the replay, in the stream.
HistoryHandedOver ==
    /\ i = Len(logs) + 1
    /\ \A k \in 1..Len(logs) :
         \E j \in 1..Len(out) : out[j].via = "hist" /\ out[j].n.TxHash = logs[k].tx
    /\ \A k \in ContinuedAt :
         log[k].height <= header =>
            \E j \in 1..Len(out) : out[j].via = "hist" /\ out[j].n.TxHash = log[k].tx

\* C16: the replay's notifications are sent by the task running
\* StartConnection while neither the subscription nor the goroutine exists;
\* the subscription and the goroutine exist only when StartConnection has
\* returned nil with every historical notification received by the
\* consumer; and StartConnection has returned nil only with all history
\* handed over and the subscription and the goroutine created.
C16_ReplayBeforeLive ==
    /\ [](/\ pc \in {"replay", "lookup", "decode", "send", "subscribe"} =>
               (sub = "none" /\ gpc = "none")
          /\ (sub # "none" \/ gpc # "none") =>
               (pc = "returned" /\ ret = "nil" /\ HistoryHandedOver)
          /\ (pc = "returned" /\ ret = "nil") =>
               (sub # "none" /\ gpc # "none" /\ HistoryHandedOver))
    /\ [][(Len(out') > Len(out) /\ out'[Len(out')].via = "hist") =>
            (pc = "send" /\ gpc = "none" /\ sub = "none")]_vars

\* C16 witness: StartConnection returned nil after handing over two
\* historical notifications; the subscription is active and the goroutine
\* has not read from it yet.
C16_Witness ==
    /\ pc = "returned" /\ ret = "nil"
    /\ Len(logs) >= 2
    /\ Len(out) = Len(logs)
    /\ sub = "active"
    /\ liveRead = 0

\* The first n entries of the historical query result have been notified,
\* in order, by the replay, and nothing else has.
NotifiedUpTo(n) ==
    /\ Len(out) = n
    /\ \A k \in 1..n : out[k].via = "hist" /\ out[k].n.TxHash = logs[k].tx

\* C17: when StartConnection has returned an error of the head read, of the
\* historical query, of processing a historical entry or of the
\* subscription, there is no goroutine and no subscription and the error
\* stream is empty; after a head-read or query error nothing was notified;
\* after an error on the i-th historical entry exactly the i-1 entries
\* before it were notified; after a subscription error all of them were.
C17_ErrorReturnClean ==
    (pc = "returned"
       /\ ret \in {"HeadErr", "FilterErr", "HeaderErr", "ParseErr", "SubscribeErr"}) =>
      /\ gpc = "none"
      /\ sub = "none"
      /\ errs = <<>>
      /\ ret \in {"HeadErr", "FilterErr"} => out = <<>>
      /\ ret \in {"HeaderErr", "ParseErr"} =>
           /\ i \in 1..Len(logs)
           /\ cur = logs[i]
           /\ \E f \in failed : f.via = "hist" /\ f.err = ret /\ f.tx = cur.tx
           /\ NotifiedUpTo(i - 1)
      /\ ret = "SubscribeErr" => NotifiedUpTo(Len(logs))

\* C17 witness: the replay notified one entry and StartConnection returned
\* the decoding error of the entry after it.
C17_Witness ==
    /\ pc = "returned"
    /\ ret = "ParseErr"
    /\ i = 2
    /\ Len(out) = 1
    /\ out[1].n.TxHash = logs[1].tx

====
